---- MODULE Spec2Model ----
(***************************************************************************)
(* SkyView weather client: the recent-city store (js/storage.js), the      *)
(* provider wrapper (js/api.js), the renderers (js/ui.js) and the lookup   *)
(* orchestration (js/app.js).                                              *)
(*                                                                         *)
(* JavaScript strings are sequences of one-character strings, so that      *)
(* trim(), toLowerCase(), split() and the validation pattern are computed  *)
(* character by character.                                                 *)
(***************************************************************************)
EXTENDS Integers, Sequences, FiniteSets, TLC

VARIABLES
    localStorage,   \* the item stored under STORAGE_KEY
    lastCall,       \* history: the last call made on the Storage module
    lookup,         \* per lookup: where it stands and what its retrievals gave
    ui,             \* the page: overlay, weather shown, dropdown, toasts
    today,          \* the date key of new Date() (UTC)
    forecastList,   \* aggregation on its own: the sample list rendered
    forecastCards,  \* aggregation on its own: what renderForecast made of it
    cityInput,      \* the raw text handed to validateCityInput
    validated,      \* what validateCityInput returned for it
    body,           \* the body element: its classes and particle overlays
    themeCall,      \* history: the last call of updateBackground
    weatherAlert,   \* the alert banner: visibility, inline colour, message
    alertCall       \* history: the last call of checkWeatherAlert

\* ------------------------------------------------------------------------
\* Strings
\* ------------------------------------------------------------------------

Whitespace == {" ", "\t"}

\* String.prototype.toLowerCase, per character
LowerTable ==
    ("A" :> "a") @@ ("B" :> "b") @@ ("C" :> "c") @@ ("D" :> "d") @@
    ("E" :> "e") @@ ("F" :> "f") @@ ("G" :> "g") @@ ("H" :> "h") @@
    ("I" :> "i") @@ ("J" :> "j") @@ ("K" :> "k") @@ ("L" :> "l") @@
    ("M" :> "m") @@ ("N" :> "n") @@ ("O" :> "o") @@ ("P" :> "p") @@
    ("Q" :> "q") @@ ("R" :> "r") @@ ("S" :> "s") @@ ("T" :> "t") @@
    ("U" :> "u") @@ ("V" :> "v") @@ ("W" :> "w") @@ ("X" :> "x") @@
    ("Y" :> "y") @@ ("Z" :> "z") @@ ("Ã" :> "ã")

toLowerCase(s) ==
    [i \in DOMAIN s |-> IF s[i] \in DOMAIN LowerTable THEN LowerTable[s[i]] ELSE s[i]]

RECURSIVE TrimStart(_)
TrimStart(s) ==
    IF s # <<>> /\ Head(s) \in Whitespace THEN TrimStart(Tail(s)) ELSE s

RECURSIVE TrimEnd(_)
TrimEnd(s) ==
    IF s # <<>> /\ s[Len(s)] \in Whitespace
    THEN TrimEnd(SubSeq(s, 1, Len(s) - 1))
    ELSE s

\* String.prototype.trim
trim(s) == TrimEnd(TrimStart(s))

\* JavaScript values handed to addRecentCity: a string or undefined
JsString(s) == [type |-> "string", chars |-> s]
JsUndefined == [type |-> "undefined", chars |-> <<>>]

\* JavaScript values produced by JSON.parse: an array of strings or a
\* value that is not an array ("{}")
JsArray(items) == [type |-> "array", items |-> items]
JsObject == [type |-> "object", items |-> <<>>]

\* ------------------------------------------------------------------------
\* Storage module (js/storage.js)
\* ------------------------------------------------------------------------

MAX_CITIES == 5

\* What localStorage holds under STORAGE_KEY: nothing, the JSON text of an
\* array of strings, a text JSON.parse rejects, or the JSON text of a
\* value that is not an array
NoItem == [kind |-> "none", value |-> <<>>]
Unparseable == [kind |-> "garbage", value |-> <<>>]
ObjectText == [kind |-> "object", value |-> <<>>]

\* JSON.stringify of an array of strings
JSONstringify(cities) == [kind |-> "array", value |-> cities]

\* How the browser's storage behaves during one handler: each of getItem,
\* setItem and removeItem either works or throws (storage disabled, quota
\* exceeded)
StorageEnvs == [getItemThrows : BOOLEAN, setItemThrows : BOOLEAN,
                removeItemThrows : BOOLEAN]

\* getRecentCities: the value returned; the catch turns a throwing getItem
\* and a throwing JSON.parse into []
getRecentCities(item, env) ==
    IF env.getItemThrows THEN JsArray(<<>>)
    ELSE IF item.kind = "none" THEN JsArray(<<>>)
    ELSE IF item.kind = "garbage" THEN JsArray(<<>>)
    ELSE IF item.kind = "array" THEN JsArray(item.value)
    ELSE JsObject

\* cities.slice(0, n)
slice(cities, n) == SubSeq(cities, 1, IF Len(cities) < n THEN Len(cities) ELSE n)

\* addRecentCity without the slice
NewCitiesUncapped(cities, trimmed) ==
    <<trimmed>> \o SelectSeq(cities, LAMBDA c : toLowerCase(c) # toLowerCase(trimmed))

\* addRecentCity comparing without toLowerCase
NewCitiesCaseSensitive(cities, trimmed) ==
    LET unshifted == <<trimmed>> \o SelectSeq(cities, LAMBDA c : c # trimmed)
    IN  IF Len(unshifted) > MAX_CITIES THEN slice(unshifted, MAX_CITIES)
        ELSE unshifted

\* addRecentCity with push in place of unshift
NewCitiesPushed(cities, trimmed) ==
    LET pushed == SelectSeq(cities, LAMBDA c : toLowerCase(c) # toLowerCase(trimmed))
                      \o <<trimmed>>
    IN  IF Len(pushed) > MAX_CITIES THEN slice(pushed, MAX_CITIES) ELSE pushed

\* The list addRecentCity builds from the loaded one (lines 37-48)
NewCities(cities, trimmed) ==
    LET filtered == SelectSeq(cities,
                        LAMBDA c : toLowerCase(c) # toLowerCase(trimmed))
        unshifted == <<trimmed>> \o filtered
    IN  IF Len(unshifted) > MAX_CITIES THEN slice(unshifted, MAX_CITIES)
        ELSE unshifted

\* addRecentCity: the item left in storage, and whether an exception left the
\* function (cities.filter on a value that is not an array is a TypeError
\* outside any try)
addRecentCity(city, item, env) ==
    IF city.type # "string" \/ city.chars = <<>>
    THEN [item |-> item, threw |-> FALSE, wrote |-> FALSE, message |-> ""]
    ELSE IF Len(trim(city.chars)) = 0
    THEN [item |-> item, threw |-> FALSE, wrote |-> FALSE, message |-> ""]
    ELSE LET cities == getRecentCities(item, env)
         IN  IF cities.type # "array"
             THEN [item |-> item, threw |-> TRUE, wrote |-> FALSE,
                   message |-> "cities.filter is not a function"]
             ELSE IF env.setItemThrows
             THEN [item |-> item, threw |-> FALSE, wrote |-> FALSE, message |-> ""]
             ELSE [item |-> JSONstringify(NewCities(cities.items, trim(city.chars))),
                   threw |-> FALSE, wrote |-> TRUE, message |-> ""]

\* clearRecentCities: the item left in storage
clearRecentCities(item, env) ==
    IF env.removeItemThrows THEN item ELSE NoItem

\* ------------------------------------------------------------------------
\* Input validation (js/app.js validateCityInput)
\* ------------------------------------------------------------------------

AsciiLetters ==
    {"a", "b", "c", "d", "e", "f", "g", "h", "i", "j", "k", "l", "m", "n", "o",
     "p", "q", "r", "s", "t", "u", "v", "w", "x", "y", "z"}
    \cup (DOMAIN LowerTable \ {"Ã"})

\* The characters of the pattern's range U+00C0 .. U+00FF
Latin1Range ==
    {"À", "Á", "Â", "Ã", "Ä", "Å", "Æ", "Ç", "È", "É", "Ê", "Ë", "Ì", "Í", "Î", "Ï",
     "Ð", "Ñ", "Ò", "Ó", "Ô", "Õ", "Ö", "×", "Ø", "Ù", "Ú", "Û", "Ü", "Ý", "Þ", "ß",
     "à", "á", "â", "ã", "ä", "å", "æ", "ç", "è", "é", "ê", "ë", "ì", "í", "î", "ï",
     "ð", "ñ", "ò", "ó", "ô", "õ", "ö", "÷", "ø", "ù", "ú", "û", "ü", "ý", "þ", "ÿ"}

\* /^[a-zA-ZÀ-ÿ\s\-'.,]+$/
validPattern(s) ==
    /\ Len(s) >= 1
    /\ \A i \in DOMAIN s :
          s[i] \in AsciiLetters \cup Latin1Range \cup Whitespace \cup {"-", "'", ".", ","}

\* validateCityInput measuring the raw input, not the trimmed one
validateCityInputUntrimmed(input) ==
    IF Len(input) = 0
    THEN [valid |-> FALSE, value |-> <<>>, error |-> "Please enter a city name."]
    ELSE IF Len(input) < 2
    THEN [valid |-> FALSE, value |-> input,
          error |-> "City name must be at least 2 characters."]
    ELSE IF Len(input) > 100
    THEN [valid |-> FALSE, value |-> input, error |-> "City name is too long."]
    ELSE IF ~validPattern(input)
    THEN [valid |-> FALSE, value |-> input,
          error |-> "City name can only contain letters, spaces, hyphens, and apostrophes."]
    ELSE [valid |-> TRUE, value |-> input, error |-> ""]

validateCityInput(input) ==
    LET trimmed == trim(input)
    IN  IF Len(trimmed) = 0
        THEN [valid |-> FALSE, value |-> <<>>, error |-> "Please enter a city name."]
        ELSE IF Len(trimmed) < 2
        THEN [valid |-> FALSE, value |-> trimmed,
              error |-> "City name must be at least 2 characters."]
        ELSE IF Len(trimmed) > 100
        THEN [valid |-> FALSE, value |-> trimmed, error |-> "City name is too long."]
        ELSE IF ~validPattern(trimmed)
        THEN [valid |-> FALSE, value |-> trimmed,
              error |-> "City name can only contain letters, spaces, hyphens, and apostrophes."]
        ELSE [valid |-> TRUE, value |-> trimmed, error |-> ""]

\* ------------------------------------------------------------------------
\* Provider wrapper (js/api.js fetchData)
\* ------------------------------------------------------------------------

\* What fetch() can produce: a rejection (no connection), or a response with
\* a status, a JSON payload (status 200) and, for an error status, the
\* "message" of the error body ("" when the body has none)
NetworkFailure == [type |-> "network", status |-> 0, errorMessage |-> ""]
HttpError(status, errorMessage) ==
    [type |-> "http", status |-> status, errorMessage |-> errorMessage]
HttpOk == [type |-> "http", status |-> 200, errorMessage |-> ""]

\* fetchData: the message of the Error thrown, "" when the payload is returned
fetchData(response) ==
    IF response.type = "network"
    THEN "Network error. Please check your internet connection."
    ELSE IF response.status >= 200 /\ response.status <= 299 THEN ""
    ELSE IF response.status = 404
    THEN "City not found. Please check the spelling and try again."
    ELSE IF response.status = 401
    THEN "Invalid API key. Please check your configuration."
    ELSE IF response.status = 429
    THEN "Too many requests. Please wait a moment and try again."
    ELSE IF response.errorMessage # "" THEN response.errorMessage
    ELSE "Failed to fetch weather data (Error " \o ToString(response.status) \o ")."

\* ------------------------------------------------------------------------
\* Forecast aggregation (js/ui.js renderForecast, lines 239-280)
\* ------------------------------------------------------------------------

\* String.prototype.split with a one-character separator
RECURSIVE split(_, _)
split(s, sep) ==
    IF \A i \in DOMAIN s : s[i] # sep THEN <<s>>
    ELSE LET i == CHOOSE k \in DOMAIN s : s[k] = sep /\ \A j \in 1..(k - 1) : s[j] # sep
         IN  <<SubSeq(s, 1, i - 1)>> \o split(SubSeq(s, i + 1, Len(s)), sep)

DigitValue ==
    ("0" :> 0) @@ ("1" :> 1) @@ ("2" :> 2) @@ ("3" :> 3) @@ ("4" :> 4) @@
    ("5" :> 5) @@ ("6" :> 6) @@ ("7" :> 7) @@ ("8" :> 8) @@ ("9" :> 9)

RECURSIVE DigitsPrefix(_, _, _)
DigitsPrefix(s, seen, acc) ==
    IF s # <<>> /\ Head(s) \in DOMAIN DigitValue
    THEN DigitsPrefix(Tail(s), TRUE, 10 * acc + DigitValue[Head(s)])
    ELSE [nan |-> ~seen, value |-> acc]

\* parseInt(s, 10): leading whitespace and a sign are skipped, the leading
\* digits are read, and NaN results when there is none
parseInt(s) ==
    LET t == TrimStart(s)
    IN  IF t # <<>> /\ Head(t) = "-"
        THEN LET r == DigitsPrefix(Tail(t), FALSE, 0)
             IN  [nan |-> r.nan, value |-> 0 - r.value]
        ELSE IF t # <<>> /\ Head(t) = "+" THEN DigitsPrefix(Tail(t), FALSE, 0)
        ELSE DigitsPrefix(t, FALSE, 0)

abs(n) == IF n < 0 THEN 0 - n ELSE n

SplitError == "Cannot read properties of undefined (reading 'split')"

\* dailyMap is the sequence of its properties in insertion order, which is the
\* order Object.keys lists them in (a date key holds a "-" and so is never
\* an array index)
AddToDailyMap(dailyMap, dateKey, entry) ==
    IF \E i \in DOMAIN dailyMap : dailyMap[i].key = dateKey
    THEN [i \in DOMAIN dailyMap |->
            IF dailyMap[i].key = dateKey
            THEN [key |-> dateKey, entries |-> Append(dailyMap[i].entries, entry)]
            ELSE dailyMap[i]]
    ELSE Append(dailyMap, [key |-> dateKey, entries |-> <<entry>>])

\* lines 240-247: entry.dt_txt.split(" ")[0] throws when dt_txt is missing
RECURSIVE GroupByDate(_, _)
GroupByDate(list, dailyMap) ==
    IF list = <<>> THEN [threw |-> FALSE, dailyMap |-> dailyMap]
    ELSE IF Head(list).dt_txt.type # "string"
    THEN [threw |-> TRUE, dailyMap |-> dailyMap]
    ELSE GroupByDate(Tail(list),
            AddToDailyMap(dailyMap, split(Head(list).dt_txt.chars, " ")[1], Head(list)))

\* The midday selection with "diff <= minDiff": the last of equally close
\* samples wins
RECURSIVE PickMiddayLast(_, _, _)
PickMiddayLast(entries, midday, minDiff) ==
    IF entries = <<>> THEN [threw |-> FALSE, midday |-> midday]
    ELSE LET e == Head(entries)
             parts == split(e.dt_txt.chars, " ")
         IN  IF Len(parts) < 2 THEN [threw |-> TRUE, midday |-> midday]
             ELSE LET hour == parseInt(split(parts[2], ":")[1])
                      diff == abs(hour.value - 12)
                  IN  IF ~hour.nan /\ (minDiff.inf \/ diff <= minDiff.value)
                      THEN PickMiddayLast(Tail(entries), e, [inf |-> FALSE, value |-> diff])
                      ELSE PickMiddayLast(Tail(entries), midday, minDiff)

\* lines 260-269: minDiff starts at Infinity (inf); a NaN difference is never
\* smaller; split(" ")[1] is undefined for a text without a space
RECURSIVE PickMidday(_, _, _)
PickMidday(entries, midday, minDiff) ==
    IF entries = <<>> THEN [threw |-> FALSE, midday |-> midday]
    ELSE LET e == Head(entries)
             parts == split(e.dt_txt.chars, " ")
         IN  IF Len(parts) < 2 THEN [threw |-> TRUE, midday |-> midday]
             ELSE LET hour == parseInt(split(parts[2], ":")[1])
                      diff == abs(hour.value - 12)
                  IN  IF ~hour.nan /\ (minDiff.inf \/ diff < minDiff.value)
                      THEN PickMidday(Tail(entries), e, [inf |-> FALSE, value |-> diff])
                      ELSE PickMidday(Tail(entries), midday, minDiff)

\* The daily minimum taken from the first sample of the group alone
DailyMinOfFirst(entries, tempMin) ==
    IF entries = <<>> THEN tempMin
    ELSE [inf |-> FALSE, value |-> Head(entries).temp_min]

\* lines 272-277
RECURSIVE DailyMin(_, _)
DailyMin(entries, tempMin) ==
    IF entries = <<>> THEN tempMin
    ELSE IF tempMin.inf \/ Head(entries).temp_min < tempMin.value
    THEN DailyMin(Tail(entries), [inf |-> FALSE, value |-> Head(entries).temp_min])
    ELSE DailyMin(Tail(entries), tempMin)

RECURSIVE DailyMax(_, _)
DailyMax(entries, tempMax) ==
    IF entries = <<>> THEN tempMax
    ELSE IF tempMax.inf \/ Head(entries).temp_max > tempMax.value
    THEN DailyMax(Tail(entries), [inf |-> FALSE, value |-> Head(entries).temp_max])
    ELSE DailyMax(Tail(entries), tempMax)

Infinity == [inf |-> TRUE, value |-> 0]

MAX_DAYS == 5

\* lines 253-280: the forEach over Object.keys(dailyMap)
RECURSIVE DailyForecasts(_, _, _)
DailyForecasts(dailyMap, todayKey, dailyForecasts) ==
    IF dailyMap = <<>> THEN [threw |-> FALSE, dailyForecasts |-> dailyForecasts]
    ELSE IF Head(dailyMap).key = todayKey
    THEN DailyForecasts(Tail(dailyMap), todayKey, dailyForecasts)
    ELSE IF Len(dailyForecasts) >= MAX_DAYS
    THEN DailyForecasts(Tail(dailyMap), todayKey, dailyForecasts)
    ELSE LET entries == Head(dailyMap).entries
             m == PickMidday(entries, entries[1], Infinity)
         IN  IF m.threw THEN [threw |-> TRUE, dailyForecasts |-> dailyForecasts]
             ELSE DailyForecasts(Tail(dailyMap), todayKey,
                     Append(dailyForecasts,
                            [midday |-> m.midday,
                             tempMin |-> DailyMin(entries, Infinity).value,
                             tempMax |-> DailyMax(entries, Infinity).value]))

\* renderForecast without the exclusion of today's group
AggregateWithToday(list, todayKey) ==
    LET g == GroupByDate(list, <<>>)
    IN  IF g.threw THEN [threw |-> TRUE, dailyForecasts |-> <<>>]
        ELSE LET d == DailyForecasts(g.dailyMap, <<>>, <<>>)
             IN  IF d.threw THEN [threw |-> TRUE, dailyForecasts |-> <<>>] ELSE d

\* The daily forecasts renderForecast computes from data.list, or the
\* TypeError that leaves it
Aggregate(list, todayKey) ==
    LET g == GroupByDate(list, <<>>)
    IN  IF g.threw THEN [threw |-> TRUE, dailyForecasts |-> <<>>]
        ELSE LET d == DailyForecasts(g.dailyMap, todayKey, <<>>)
             IN  IF d.threw THEN [threw |-> TRUE, dailyForecasts |-> <<>>] ELSE d

\* ------------------------------------------------------------------------
\* The page (js/ui.js)
\* ------------------------------------------------------------------------

MaxLookups == 1
Lookups == 1..MaxLookups

\* ui.current.from / ui.forecast.from name the lookup whose data is on
\* display (0: none); shows, hides, renderedCurrent, renderedForecast and the
\* index of toasts record which lookup made the call (0: another handler)
InitialUi ==
    [loading |-> FALSE,
     current |-> [from |-> 0, name |-> <<>>],
     forecast |-> [from |-> 0, cards |-> <<>>],
     recentList |-> <<>>,
     toasts |-> [i \in 0..MaxLookups |-> <<>>],
     shows |-> [l \in Lookups |-> 0],
     hides |-> [l \in Lookups |-> 0],
     renderedCurrent |-> [l \in Lookups |-> FALSE],
     renderedForecast |-> [l \in Lookups |-> FALSE]]

showLoading(u, l) ==
    [u EXCEPT !.loading = TRUE, !.shows[l] = @ + 1]

hideLoading(u, l) ==
    [u EXCEPT !.loading = FALSE, !.hides[l] = @ + 1]

showToast(u, l, message, type, city) ==
    [u EXCEPT !.toasts[l] = Append(@, [message |-> message, type |-> type, city |-> city])]

showError(u, l, message) == showToast(u, l, message, "error", <<>>)

renderCurrentWeather(u, l, data) ==
    [u EXCEPT !.current = [from |-> l, name |-> data.name.chars],
              !.renderedCurrent[l] = TRUE]

\* renderForecast empties the container first; the cards are appended only
\* when the aggregation has not thrown
renderForecast(u, l, data, todayKey) ==
    LET a == Aggregate(data.list, todayKey)
        emptied == [u EXCEPT !.forecast = [from |-> 0, cards |-> <<>>]]
    IN  IF a.threw
        THEN [ui |-> emptied, threw |-> TRUE, message |-> SplitError]
        ELSE [ui |-> [u EXCEPT !.forecast = [from |-> l, cards |-> a.dailyForecasts],
                               !.renderedForecast[l] = TRUE],
              threw |-> FALSE, message |-> ""]

\* renderRecentCities: cities.forEach is a TypeError on a value that is not
\* an array
renderRecentCities(u, cities) ==
    LET emptied == [u EXCEPT !.recentList = <<>>]
    IN  IF cities.type = "array"
        THEN [ui |-> [u EXCEPT !.recentList = cities.items], threw |-> FALSE,
              message |-> ""]
        ELSE [ui |-> emptied, threw |-> TRUE,
              message |-> "cities.forEach is not a function"]

\* ------------------------------------------------------------------------
\* Background theme and alert banner (js/ui.js updateBackground,
\* checkWeatherAlert)
\* ------------------------------------------------------------------------

\* icon && icon.endsWith("n"): false for a missing or empty icon code
isNight(icon) ==
    /\ icon.type = "string"
    /\ icon.chars # <<>>
    /\ icon.chars[Len(icon.chars)] = "n"

\* The own properties of classMap (lines 446-457)
classMap(night) ==
    (<<"c", "l", "e", "a", "r">> :> IF night THEN "weather-clear-night" ELSE "weather-clear") @@
    (<<"c", "l", "o", "u", "d", "s">> :> "weather-clouds") @@
    (<<"r", "a", "i", "n">> :> "weather-rain") @@
    (<<"d", "r", "i", "z", "z", "l", "e">> :> "weather-drizzle") @@
    (<<"t", "h", "u", "n", "d", "e", "r", "s", "t", "o", "r", "m">> :> "weather-thunderstorm") @@
    (<<"s", "n", "o", "w">> :> "weather-snow") @@
    (<<"m", "i", "s", "t">> :> "weather-mist") @@
    (<<"f", "o", "g">> :> "weather-fog") @@
    (<<"h", "a", "z", "e">> :> "weather-haze") @@
    (<<"s", "m", "o", "k", "e">> :> "weather-smoke")

\* The lower-case names every object inherits from Object.prototype: the
\* constructor function and the prototype object
InheritedProperties == {<<"c", "o", "n", "s", "t", "r", "u", "c", "t", "o", "r">>, <<"_", "_", "p", "r", "o", "t", "o", "_", "_">>}

\* classMap[conditionLower]
ClassMapLookup(conditionLower, night) ==
    IF conditionLower \in DOMAIN classMap(night)
    THEN [type |-> "string", class |-> classMap(night)[conditionLower]]
    ELSE IF conditionLower \in InheritedProperties
    THEN [type |-> "object", class |-> ""]
    ELSE [type |-> "undefined", class |-> ""]

\* The class names that start with "weather-"
WeatherClasses ==
    { classMap(night)[k] : night \in BOOLEAN, k \in DOMAIN classMap(FALSE) }
    \cup {"weather-default"}

\* The overlay createRainEffect appends; createSnowEffect reuses its class
RainOverlay == [className |-> "rain-overlay", particles |-> "raindrop"]
SnowOverlay == [className |-> "rain-overlay", particles |-> "snowflake"]

\* The particle step without the thunderstorm entry
createParticlesNoStorm(overlays, conditionLower) ==
    LET rained == IF conditionLower \in {<<"r", "a", "i", "n">>, <<"d", "r", "i", "z", "z", "l", "e">>}
                  THEN Append(overlays, RainOverlay) ELSE overlays
    IN  IF conditionLower = <<"s", "n", "o", "w">> THEN Append(rained, SnowOverlay) ELSE rained

\* lines 462-470
createParticles(overlays, conditionLower) ==
    LET rained == IF conditionLower \in {<<"r", "a", "i", "n">>, <<"d", "r", "i", "z", "z", "l", "e">>, <<"t", "h", "u", "n", "d", "e", "r", "s", "t", "o", "r", "m">>}
                  THEN Append(overlays, RainOverlay) ELSE overlays
    IN  IF conditionLower = <<"s", "n", "o", "w">> THEN Append(rained, SnowOverlay) ELSE rained

\* updateBackground: classList.add of a value that is not a string adds its
\* text, and the text of a function or of an object holds spaces, which
\* classList.add refuses with an InvalidCharacterError
updateBackground(b, condition, icon) ==
    LET night == isNight(icon)
        cleared == [className |-> SelectSeq(b.className, LAMBDA cls : cls \notin WeatherClasses),
                    overlays |-> SelectSeq(b.overlays,
                                           LAMBDA el : el.className # "rain-overlay")]
        conditionLower == toLowerCase(condition)
        found == ClassMapLookup(conditionLower, night)
    IN  IF found.type = "object"
        THEN [body |-> cleared, threw |-> TRUE]
        ELSE [body |-> [className |-> Append(cleared.className,
                                             IF found.type = "string" THEN found.class
                                             ELSE "weather-default"),
                        overlays |-> createParticles(cleared.overlays, conditionLower)],
              threw |-> FALSE]

\* Temperatures are in tenths of a degree Celsius, or NaN
JsNumber(n) == [nan |-> FALSE, value |-> n]
NaN == [nan |-> TRUE, value |-> 0]

\* Math.round of a temperature in tenths: halves go up
MathRound(t) == (t.value + 5) \div 10

InitialAlert ==
    [hidden |-> TRUE, background |-> "", message |-> [warning |-> "", rounded |-> 0]]

\* checkWeatherAlert with the bounds included
checkWeatherAlertInclusive(a, tempCelsius) ==
    IF ~tempCelsius.nan /\ tempCelsius.value >= 400
    THEN [a EXCEPT !.message = [warning |-> "Extreme Heat Warning!",
                                rounded |-> MathRound(tempCelsius)],
                   !.hidden = FALSE]
    ELSE IF ~tempCelsius.nan /\ tempCelsius.value <= -200
    THEN [a EXCEPT !.message = [warning |-> "Extreme Cold Warning!",
                                rounded |-> MathRound(tempCelsius)],
                   !.hidden = FALSE,
                   !.background = "rgba(37, 99, 235, 0.95)"]
    ELSE [a EXCEPT !.hidden = TRUE, !.background = ""]

\* checkWeatherAlert (lines 404-416): 40 and -20 degrees are 400 and -200
\* tenths; every comparison with NaN is false
checkWeatherAlert(a, tempCelsius) ==
    IF ~tempCelsius.nan /\ tempCelsius.value > 400
    THEN [a EXCEPT !.message = [warning |-> "Extreme Heat Warning!",
                                rounded |-> MathRound(tempCelsius)],
                   !.hidden = FALSE]
    ELSE IF ~tempCelsius.nan /\ tempCelsius.value < -200
    THEN [a EXCEPT !.message = [warning |-> "Extreme Cold Warning!",
                                rounded |-> MathRound(tempCelsius)],
                   !.hidden = FALSE,
                   !.background = "rgba(37, 99, 235, 0.95)"]
    ELSE [a EXCEPT !.hidden = TRUE, !.background = ""]

\* The close button of the banner (lines 419-421)
alertCloseClick(a) == [a EXCEPT !.hidden = TRUE]

\* ------------------------------------------------------------------------
\* Lookups (js/app.js searchByCity, searchByLocation)
\* ------------------------------------------------------------------------

NoCurrent == [name |-> JsUndefined]
NoForecast == [list |-> <<>>]

NotIssued(data) == [st |-> "none", data |-> data, message |-> ""]
Pending(data) == [st |-> "pending", data |-> data, message |-> ""]

InitialLookup ==
    [phase |-> "Idle", kind |-> "none", cur |-> NotIssued(NoCurrent),
     fc |-> NotIssued(NoForecast), firstFailed |-> "none", wrote |-> FALSE]

refreshRecentCitiesDropdown(u, item, env) ==
    renderRecentCities(u, getRecentCities(item, env))

\* searchByCity showing the overlay before it validates
searchByCityStartEager(u, l, input) ==
    LET validation == validateCityInput(input)
    IN  IF ~validation.valid
        THEN [ui |-> showError(showLoading(u, l), l, validation.error), issued |-> FALSE]
        ELSE [ui |-> showLoading(u, l), issued |-> TRUE]

\* searchByCity up to its await (lines 627-633)
searchByCityStart(u, l, input) ==
    LET validation == validateCityInput(input)
    IN  IF ~validation.valid
        THEN [ui |-> showError(u, l, validation.error), issued |-> FALSE]
        ELSE [ui |-> showLoading(u, l), issued |-> TRUE]

\* searchByLocation up to getCurrentPosition (lines 666-673)
searchByLocationStart(u, l, supported) ==
    IF ~supported
    THEN [ui |-> showError(u, l, "Geolocation is not supported by your browser."),
          issued |-> FALSE]
    ELSE [ui |-> showLoading(u, l), issued |-> TRUE]

\* Promise.race in place of Promise.all: the first settlement decides
PromiseRace(which, r, other) ==
    IF r.st = "err" THEN [state |-> "rejected", reason |-> r.message]
    ELSE [state |-> "fulfilled", reason |-> ""]

\* Promise.allSettled followed by a check of the current-conditions result
\* first: nothing is decided before both have settled
PromiseAllSettled(which, r, other) ==
    LET c == IF which = "current" THEN r ELSE other
        f == IF which = "current" THEN other ELSE r
    IN  IF other.st = "pending" THEN [state |-> "pending", reason |-> ""]
        ELSE IF c.st = "err" THEN [state |-> "rejected", reason |-> c.message]
        ELSE IF f.st = "err" THEN [state |-> "rejected", reason |-> f.message]
        ELSE [state |-> "fulfilled", reason |-> ""]

\* Promise.all over [current, forecast], at the moment one of the two settles
\* with result r while the combined promise is pending: the first rejection
\* rejects it, the second fulfilment fulfils it
PromiseAll(which, r, other) ==
    IF r.st = "err" THEN [state |-> "rejected", reason |-> r.message]
    ELSE IF other.st = "ok" THEN [state |-> "fulfilled", reason |-> ""]
    ELSE [state |-> "pending", reason |-> ""]

\* The try block after the await (lines 642-654, 683-691), statement by
\* statement: each takes the results of the statements before it

\* after refreshRecentCitiesDropdown() (line 651); searchByLocation then
\* shows its success toast (line 691)
TryRefreshed(l, kind, currentData, ar, rr) ==
    IF rr.threw
    THEN [ui |-> rr.ui, item |-> ar.item, threw |-> TRUE, message |-> rr.message,
          wrote |-> ar.wrote]
    ELSE [ui |-> IF kind = "location"
                 THEN showToast(rr.ui, l, "Showing weather for", "success",
                                currentData.name.chars)
                 ELSE rr.ui,
          item |-> ar.item, threw |-> FALSE, message |-> "", wrote |-> ar.wrote]

\* after Storage.addRecentCity(currentData.name) (line 650)
TryStored(l, kind, currentData, rf, ar, env) ==
    IF ar.threw
    THEN [ui |-> rf.ui, item |-> ar.item, threw |-> TRUE, message |-> ar.message,
          wrote |-> FALSE]
    ELSE TryRefreshed(l, kind, currentData, ar,
                      refreshRecentCitiesDropdown(rf.ui, ar.item, env))

\* after the two renderers (lines 646-647)
TryRendered(l, kind, currentData, rf, item, env) ==
    IF rf.threw
    THEN [ui |-> rf.ui, item |-> item, threw |-> TRUE, message |-> rf.message,
          wrote |-> FALSE]
    ELSE TryStored(l, kind, currentData, rf,
                   addRecentCity(currentData.name, item, env), env)

TryBlock(l, kind, currentData, forecastData, u, item, env, todayKey) ==
    TryRendered(l, kind, currentData,
                renderForecast(renderCurrentWeather(u, l, currentData), l,
                               forecastData, todayKey),
                item, env)

\* hideLoading at the end of the try block, with no finally
CatchNoFinally(u, l, threw, message) ==
    IF threw THEN showError(u, l, message) ELSE hideLoading(u, l)

\* catch and finally (lines 655-659, 692-696)
CatchFinally(u, l, threw, message) ==
    hideLoading(IF threw THEN showError(u, l, message) ELSE u, l)

\* The async function leaves its try block with outcome t
Completed(l, t) ==
    [ui |-> CatchFinally(t.ui, l, t.threw, t.message), item |-> t.item,
     phase |-> IF t.threw THEN "Failed" ELSE "Success", wrote |-> t.wrote]

\* What the async function does once the combined promise has settled
AfterAwait(l, kind, joined, currentData, forecastData, u, item, env, todayKey) ==
    IF joined.state = "rejected"
    THEN [ui |-> CatchFinally(u, l, TRUE, joined.reason), item |-> item,
          phase |-> "Failed", wrote |-> FALSE]
    ELSE Completed(l, TryBlock(l, kind, currentData, forecastData, u, item, env,
                               todayKey))

\* The error callback of getCurrentPosition (lines 698-713)
GeoErrorMessage(code) ==
    IF code = 1
    THEN "Location access denied. Please allow location access in your browser settings."
    ELSE IF code = 2 THEN "Location information is unavailable."
    ELSE IF code = 3 THEN "Location request timed out. Please try again."
    ELSE "An unknown error occurred while getting your location."

geoErrorCallback(u, l, code) ==
    showError(hideLoading(u, l), l, GeoErrorMessage(code))

\* ------------------------------------------------------------------------
\* Inputs
\* ------------------------------------------------------------------------

Paris == <<"P", "a", "r", "i", "s">>
paris == <<"p", "a", "r", "i", "s">>
London == <<"L", "o", "n", "d", "o", "n">>
Oslo == <<"O", "s", "l", "o">>
Lima == <<"L", "i", "m", "a">>
Kyiv == <<"K", "y", "i", "v">>
PaddedRome == <<" ", "R", "o", "m", "e", " ">>
Blank == <<" ", " ">>

\* Arguments addRecentCity is called with
CityArgs ==
    { JsString(s) : s \in {Paris, paris, London, Oslo, PaddedRome, Lima, Kyiv,
                           Blank, <<>>} }
    \cup {JsUndefined}

\* The items a page can find in storage when it opens
StartItems == {NoItem, Unparseable, ObjectText}

\* The same, with a list an earlier session has left
PageStartItems == {NoItem, ObjectText, JSONstringify(<<London, paris>>)}

\* The storage behaviours that differ for a handler that only reads, one
\* that reads and writes, and one that only removes
ReadEnvs == {e \in StorageEnvs : ~e.setItemThrows /\ ~e.removeItemThrows}
WriteEnvs == {e \in StorageEnvs : ~e.removeItemThrows
                                    /\ ~(e.getItemThrows /\ e.setItemThrows)}
RemoveEnvs == {e \in StorageEnvs : ~e.getItemThrows /\ ~e.setItemThrows}

\* What the user types into the search box
CityInputs == {<<>>, Paris, <<"P", "4">>}

\* The "name" of a current-conditions payload ("" for a position at sea)
ProviderNames == {Paris, London, <<>>}

DigitChar == <<"1", "2", "3", "4", "5", "6", "7", "8", "9">>

\* "01-0d", the date part of dt_txt
DateKey(d) == <<"0", "1", "-", "0", DigitChar[d]>>

\* "01-0d hh:00"
DtTxt(d, hh) == DateKey(d) \o <<" ">> \o hh \o <<":", "0", "0">>

Sample(d, hh, tmin, tmax) ==
    [dt_txt |-> JsString(DtTxt(d, hh)), temp_min |-> tmin, temp_max |-> tmax]

\* A sample whose dt_txt is missing
NoTimestamp == [dt_txt |-> JsUndefined, temp_min |-> 9, temp_max |-> 21]

Noon == <<"1", "2">>
GoodForecast == [list |-> <<Sample(1, Noon, 11, 19), Sample(2, Noon, 10, 20)>>]
BadForecast == [list |-> <<Sample(2, Noon, 10, 20), NoTimestamp>>]

FailureResponses == {NetworkFailure, HttpError(404, "")}

CurrentResponses ==
    { [response |-> r, data |-> NoCurrent] : r \in FailureResponses }
    \cup { [response |-> HttpOk, data |-> [name |-> JsString(n)]] : n \in ProviderNames }

ForecastResponses ==
    { [response |-> r, data |-> NoForecast] : r \in FailureResponses }
    \cup { [response |-> HttpOk, data |-> d] : d \in {GoodForecast, BadForecast} }

\* PositionError codes: PERMISSION_DENIED, TIMEOUT
GeoErrorCodes == {1, 3}

TodayKeys == {DateKey(1)}

MaxClears == 1
MaxSamples == 4
NumDates == 7

NoCall == [op |-> "none", city |-> JsUndefined, threw |-> FALSE, wrote |-> FALSE,
           returned |-> JsArray(<<>>)]

vars == <<localStorage, lastCall, lookup, ui, today, forecastList,
          forecastCards, cityInput, validated, body, themeCall, weatherAlert,
          alertCall>>

storageVars == <<localStorage, lastCall>>
pageVars == <<lookup, ui>>
aggVars == <<forecastList, forecastCards>>
widgetVars == <<cityInput, validated, body, themeCall, weatherAlert, alertCall>>

\* Nothing validated yet
NotValidated == [valid |-> FALSE, value |-> <<>>, error |-> "not validated"]

InitialBody == [className |-> <<>>, overlays |-> <<>>]

NoThemeCall == [called |-> FALSE, condition |-> <<>>, icon |-> JsUndefined,
                threw |-> FALSE]

NoAlertCall == [called |-> FALSE, temp |-> NaN, closed |-> FALSE]

\* The page as loaded: an empty search box, no theme, the banner hidden
WidgetsInit ==
    /\ cityInput = <<>>
    /\ validated = NotValidated
    /\ body = InitialBody
    /\ themeCall = NoThemeCall
    /\ weatherAlert = InitialAlert
    /\ alertCall = NoAlertCall

\* ------------------------------------------------------------------------
\* The application: lookups, the dropdown and the clear button
\* ------------------------------------------------------------------------

\* init() fills the dropdown from the storage (lines 794-799)
Init ==
    /\ localStorage \in PageStartItems
    /\ lastCall = NoCall
    /\ lookup = [l \in Lookups |-> InitialLookup]
    /\ ui \in { refreshRecentCitiesDropdown(InitialUi, localStorage, env).ui :
                   env \in ReadEnvs }
    /\ today \in TodayKeys
    /\ forecastList = <<>>
    /\ forecastCards = Aggregate(<<>>, today)
    /\ WidgetsInit

\* Lookups are numbered in the order they are started
IsNext(l) ==
    /\ lookup[l].phase = "Idle"
    /\ \A k \in 1..(l - 1) : lookup[k].phase # "Idle"

RecentItems == { ui.recentList[i] : i \in DOMAIN ui.recentList }

\* Search button, Enter key, or a click on an entry of the dropdown
SearchByCity(l, input) ==
    /\ IsNext(l)
    /\ LET s == searchByCityStart(ui, l, input)
       IN  /\ ui' = s.ui
           /\ lookup' = [lookup EXCEPT ![l] =
                 IF s.issued
                 THEN [@ EXCEPT !.phase = "Loading", !.kind = "city",
                                !.cur = Pending(NoCurrent), !.fc = Pending(NoForecast)]
                 ELSE [@ EXCEPT !.phase = "Rejected", !.kind = "city"]]
    /\ UNCHANGED <<localStorage, lastCall, today, aggVars, widgetVars>>

\* Location button; supported: whether navigator.geolocation exists
SearchByLocation(l, supported) ==
    /\ IsNext(l)
    /\ LET s == searchByLocationStart(ui, l, supported)
       IN  /\ ui' = s.ui
           /\ lookup' = [lookup EXCEPT ![l] =
                 IF s.issued
                 THEN [@ EXCEPT !.phase = "Locating", !.kind = "location"]
                 ELSE [@ EXCEPT !.phase = "Rejected", !.kind = "location"]]
    /\ UNCHANGED <<localStorage, lastCall, today, aggVars, widgetVars>>

\* The position callback: the two retrievals are issued
GeoSuccess(l) ==
    /\ lookup[l].phase = "Locating"
    /\ lookup' = [lookup EXCEPT ![l] =
          [@ EXCEPT !.phase = "Loading", !.cur = Pending(NoCurrent),
                    !.fc = Pending(NoForecast)]]
    /\ UNCHANGED <<localStorage, lastCall, ui, today, aggVars, widgetVars>>

GeoError(l, code) ==
    /\ lookup[l].phase = "Locating"
    /\ ui' = geoErrorCallback(ui, l, code)
    /\ lookup' = [lookup EXCEPT ![l].phase = "Failed"]
    /\ UNCHANGED <<localStorage, lastCall, today, aggVars, widgetVars>>

\* What fetchData hands back for a response
Settled(r) ==
    LET message == fetchData(r.response)
    IN  IF message = "" THEN [st |-> "ok", data |-> r.data, message |-> ""]
        ELSE [st |-> "err", data |-> r.data, message |-> message]

\* A payload is held only while the async function waits for the other one
Dropped(result, data) == [result EXCEPT !.data = data]

\* One retrieval of lookup l settles; when that settles the combined promise
\* the rest of the async function runs in the same turn
Settle(l, which, result, env) ==
    LET other == IF which = "current" THEN lookup[l].fc ELSE lookup[l].cur
        currentData == IF which = "current" THEN result.data ELSE lookup[l].cur.data
        forecastData == IF which = "forecast" THEN result.data ELSE lookup[l].fc.data
        joined == PromiseAll(which, result, other)
        recorded == [lookup[l] EXCEPT
                        !.cur = IF which = "current" THEN result ELSE @,
                        !.fc = IF which = "forecast" THEN result ELSE @,
                        !.firstFailed = IF result.st = "err" /\ @ = "none"
                                        THEN which ELSE @]
        released == [recorded EXCEPT !.cur = Dropped(@, NoCurrent),
                                     !.fc = Dropped(@, NoForecast)]
    IN  IF lookup[l].phase # "Loading"
        THEN /\ lookup' = [lookup EXCEPT ![l] = released]
             /\ UNCHANGED <<ui, localStorage>>
        ELSE IF joined.state = "pending"
        THEN /\ lookup' = [lookup EXCEPT ![l] = recorded]
             /\ UNCHANGED <<ui, localStorage>>
        ELSE \E a \in {AfterAwait(l, lookup[l].kind, joined, currentData, forecastData,
                                  ui, localStorage, env, today)} :
                 /\ lookup' = [lookup EXCEPT ![l] =
                       [released EXCEPT !.phase = a.phase, !.wrote = a.wrote]]
                 /\ ui' = a.ui
                 /\ localStorage' = a.item

SettleCurrent(l, r, env) ==
    /\ lookup[l].cur.st = "pending"
    /\ Settle(l, "current", Settled(r), env)
    /\ UNCHANGED <<lastCall, today, aggVars, widgetVars>>

SettleForecast(l, r, env) ==
    /\ lookup[l].fc.st = "pending"
    /\ Settle(l, "forecast", Settled(r), env)
    /\ UNCHANGED <<lastCall, today, aggVars, widgetVars>>

\* "Clear all" (lines 768-772)
ClearRecent(env) ==
    /\ Len(ui.toasts[0]) < MaxClears
    /\ localStorage' = clearRecentCities(localStorage, env)
    /\ ui' = showToast(ui, 0, "Recent searches cleared.", "info", <<>>)
    /\ UNCHANGED <<lastCall, lookup, today, aggVars, widgetVars>>

\* Focus on the search box (lines 750-756); undefined > 0 is false
FocusInput(env) ==
    /\ LET cities == getRecentCities(localStorage, env)
       IN  /\ cities.type = "array" /\ Len(cities.items) > 0
           /\ ui' = refreshRecentCitiesDropdown(ui, localStorage, env).ui
    /\ UNCHANGED <<localStorage, lastCall, lookup, today, aggVars, widgetVars>>

Next ==
    \/ \E l \in Lookups : \E input \in CityInputs \cup RecentItems : SearchByCity(l, input)
    \/ \E l \in Lookups, supported \in BOOLEAN : SearchByLocation(l, supported)
    \/ \E l \in Lookups : GeoSuccess(l)
    \/ \E l \in Lookups, code \in GeoErrorCodes : GeoError(l, code)
    \/ \E l \in Lookups, r \in CurrentResponses, env \in WriteEnvs : SettleCurrent(l, r, env)
    \/ \E l \in Lookups, r \in ForecastResponses, env \in WriteEnvs : SettleForecast(l, r, env)
    \/ \E env \in RemoveEnvs : ClearRecent(env)
    \/ \E env \in ReadEnvs : FocusInput(env)

Spec == Init /\ [][Next]_vars

\* ------------------------------------------------------------------------
\* The Storage module on its own
\* ------------------------------------------------------------------------

StorageInit ==
    /\ localStorage \in StartItems
    /\ lastCall = NoCall
    /\ lookup = [l \in Lookups |-> InitialLookup]
    /\ ui = InitialUi
    /\ today \in TodayKeys
    /\ forecastList = <<>>
    /\ forecastCards = Aggregate(<<>>, today)
    /\ WidgetsInit

StorageGet(env) ==
    /\ lastCall' = [op |-> "getRecentCities", city |-> JsUndefined, threw |-> FALSE,
                    wrote |-> FALSE, returned |-> getRecentCities(localStorage, env)]
    /\ UNCHANGED <<localStorage, pageVars, today, aggVars, widgetVars>>

StorageAdd(city, env) ==
    LET r == addRecentCity(city, localStorage, env)
    IN  /\ localStorage' = r.item
        /\ lastCall' = [op |-> "addRecentCity", city |-> city, threw |-> r.threw,
                        wrote |-> r.wrote, returned |-> JsArray(<<>>)]
        /\ UNCHANGED <<pageVars, today, aggVars, widgetVars>>

StorageClear(env) ==
    /\ localStorage' = clearRecentCities(localStorage, env)
    /\ lastCall' = [op |-> "clearRecentCities", city |-> JsUndefined, threw |-> FALSE,
                    wrote |-> ~env.removeItemThrows, returned |-> JsArray(<<>>)]
    /\ UNCHANGED <<pageVars, today, aggVars, widgetVars>>

StorageNext ==
    \/ \E env \in ReadEnvs : StorageGet(env)
    \/ \E city \in CityArgs, env \in WriteEnvs : StorageAdd(city, env)
    \/ \E env \in RemoveEnvs : StorageClear(env)

SpecStorage == StorageInit /\ [][StorageNext]_vars

\* ------------------------------------------------------------------------
\* renderForecast on its own
\* ------------------------------------------------------------------------

\* The samples of the lists rendered: one reading at noon per date
ForecastSamples == { Sample(d, Noon, 10, 20) : d \in 1..NumDates }

\* A list as the provider sends it: today and the three days after it
ProviderList == [d \in 1..4 |-> Sample(d, Noon, 10, 20)]

\* The lists rendering starts from: an empty one, or the provider's
StartLists == {<<>>, ProviderList}

ForecastInit ==
    /\ localStorage = NoItem
    /\ lastCall = NoCall
    /\ lookup = [l \in Lookups |-> InitialLookup]
    /\ ui = InitialUi
    /\ today \in TodayKeys
    /\ forecastList \in StartLists
    /\ forecastCards = Aggregate(forecastList, today)
    /\ WidgetsInit

\* forecastList without the list rendering started from
Added ==
    IF Len(forecastList) >= 4 /\ SubSeq(forecastList, 1, 4) = ProviderList
    THEN SubSeq(forecastList, 5, Len(forecastList))
    ELSE forecastList

\* The list is one sample (of any date, in any order) longer and is rendered
RenderLonger(sample) ==
    /\ Len(Added) < MaxSamples
    /\ forecastList' = Append(forecastList, sample)
    /\ forecastCards' = Aggregate(forecastList', today)
    /\ UNCHANGED <<storageVars, pageVars, today, widgetVars>>

ForecastNext == \E sample \in ForecastSamples : RenderLonger(sample)

SpecForecast == ForecastInit /\ [][ForecastNext]_vars

\* ------------------------------------------------------------------------
\* renderForecast on the samples of a day
\* ------------------------------------------------------------------------

MaxDaySamples == 3

\* The hh of "hh:00"
Hours == {<<"0", "6">>, <<"0", "9">>, Noon, <<"1", "5">>, <<"1", "8">>}

\* <<temp_min, temp_max>> of a sample
TempBounds == {<<10, 20>>, <<8, 22>>, <<12, 19>>}

\* Samples of tomorrow at several hours, and one of the day after
DaySamples ==
    { Sample(2, hh, t[1], t[2]) : hh \in Hours, t \in TempBounds }
    \cup {Sample(3, Noon, 10, 20)}

\* dt_txt "01-02": a timestamp with no time of day
NoTime == [dt_txt |-> JsString(DateKey(2)), temp_min |-> 9, temp_max |-> 21]

\* dt_txt "01-02 xx:00": a timestamp whose hour is not a number
BadHour == [dt_txt |-> JsString(DtTxt(2, <<"x", "x">>)), temp_min |-> 9, temp_max |-> 21]

MalformedSamples == {NoTimestamp, NoTime, BadHour}

DayInit ==
    /\ localStorage = NoItem
    /\ lastCall = NoCall
    /\ lookup = [l \in Lookups |-> InitialLookup]
    /\ ui = InitialUi
    /\ today \in TodayKeys
    /\ forecastList = <<>>
    /\ forecastCards = Aggregate(forecastList, today)
    /\ WidgetsInit

\* The list is one well-formed sample longer and is rendered
RenderSample(sample) ==
    /\ Len(forecastList) < MaxDaySamples
    /\ forecastList' = Append(forecastList, sample)
    /\ forecastCards' = Aggregate(forecastList', today)
    /\ UNCHANGED <<storageVars, pageVars, today, widgetVars>>

\* The list is one malformed sample longer and is rendered
RenderMalformed(sample) ==
    /\ Len(forecastList) < MaxDaySamples
    /\ forecastList' = Append(forecastList, sample)
    /\ forecastCards' = Aggregate(forecastList', today)
    /\ UNCHANGED <<storageVars, pageVars, today, widgetVars>>

DayNext ==
    \/ \E sample \in DaySamples : RenderSample(sample)
    \/ \E sample \in MalformedSamples : RenderMalformed(sample)

SpecDay == DayInit /\ [][DayNext]_vars

\* ------------------------------------------------------------------------
\* validateCityInput on its own
\* ------------------------------------------------------------------------

MaxPad == 1

\* n copies of the character c
Repeat(c, n) == [i \in 1..n |-> c]

\* The lengths around the two limits of the validator
CoreLengths == {0, 1, 2, 3, 99, 100, 101, 102}

\* Letters, accented letters inside and outside U+00C0 .. U+00FF (a
\* character beyond U+00FF is written by its code point: "U+0141" is the
\* L with stroke, "U+017A" the z with acute of the Polish city Lodz), the two
\* signs inside that range, a digit, a symbol, the punctuation the pattern
\* names, a space and a tab
CoreChars == {"a", "Z", "é", "ÿ", "×", "U+0141", "4", "!", "-", "'", ".", ",", " ", "\t"}

Examples ==
    {<<"P", "a", "r", "i", "s", "!">>, <<"S", "ã", "o", " ", "P", "a", "u", "l", "o">>,
     <<"S", "t", ".", " ", "J", "o", "h", "n", "'", "s">>, <<"a", "×", "b">>,
     <<"U+0141", "ó", "d", "U+017A">>}

\* What can be handed to the validator: a run of one character or an
\* example, with up to MaxPad spaces on either side
RawInputs ==
    { Repeat(" ", l) \o core \o Repeat(" ", r) :
        l \in 0..MaxPad, r \in 0..MaxPad,
        core \in { Repeat(c, n) : c \in CoreChars, n \in CoreLengths } \cup Examples }

\* The text is in the search box and has not been submitted
ValidateInit ==
    /\ localStorage = NoItem
    /\ lastCall = NoCall
    /\ lookup = [l \in Lookups |-> InitialLookup]
    /\ ui = InitialUi
    /\ today \in TodayKeys
    /\ forecastList = <<>>
    /\ forecastCards = Aggregate(forecastList, today)
    /\ cityInput \in RawInputs
    /\ validated = NotValidated
    /\ body = InitialBody
    /\ themeCall = NoThemeCall
    /\ weatherAlert = InitialAlert
    /\ alertCall = NoAlertCall

Validate(input) ==
    /\ validated = NotValidated
    /\ input = cityInput
    /\ validated' = validateCityInput(input)
    /\ UNCHANGED <<storageVars, pageVars, today, aggVars, cityInput, body,
                   themeCall, weatherAlert, alertCall>>

ValidateNext == \E input \in RawInputs : Validate(input)

SpecValidate == ValidateInit /\ [][ValidateNext]_vars

\* ------------------------------------------------------------------------
\* updateBackground on its own
\* ------------------------------------------------------------------------

\* weather[0].main: categories of the provider that the properties name
Clear == <<"C", "l", "e", "a", "r">>
Rain == <<"R", "a", "i", "n">>
Drizzle == <<"D", "r", "i", "z", "z", "l", "e">>
Thunderstorm == <<"T", "h", "u", "n", "d", "e", "r", "s", "t", "o", "r", "m">>
Snow == <<"S", "n", "o", "w">>

KnownConditions ==
    {Clear, Rain, Drizzle, Thunderstorm, Snow,
     <<"C", "l", "o", "u", "d", "s">>,
     <<"M", "i", "s", "t">>, <<"F", "o", "g">>,
     <<"H", "a", "z", "e">>, <<"S", "m", "o", "k", "e">>}

\* Categories the table does not list, the empty text, and texts that name
\* a property every object inherits
OtherConditions ==
    {<<"D", "u", "s", "t">>, <<"S", "a", "n", "d">>, <<"A", "s", "h">>,
     <<"S", "q", "u", "a", "l", "l">>, <<"T", "o", "r", "n", "a", "d", "o">>,
     <<>>, <<"c", "o", "n", "s", "t", "r", "u", "c", "t", "o", "r">>,
     <<"_", "_", "p", "r", "o", "t", "o", "_", "_">>}

\* weather[0].icon: day and night codes, the empty text, no icon
IconCodes ==
    { JsString(i) : i \in {<<"0", "1", "d">>, <<"0", "1", "n">>, <<"1", "0", "d">>, <<"1", "0", "n">>, <<"1", "3", "d">>, <<"1", "3", "n">>, <<>>} }
    \cup {JsUndefined}

\* A body with a class of its own besides the theme
OwnClassBody == [className |-> <<"min-h-screen">>, overlays |-> <<>>]

ThemeInit ==
    /\ localStorage = NoItem
    /\ lastCall = NoCall
    /\ lookup = [l \in Lookups |-> InitialLookup]
    /\ ui = InitialUi
    /\ today \in TodayKeys
    /\ forecastList = <<>>
    /\ forecastCards = Aggregate(forecastList, today)
    /\ cityInput = <<>>
    /\ validated = NotValidated
    /\ body \in {InitialBody, OwnClassBody}
    /\ themeCall = NoThemeCall
    /\ weatherAlert = InitialAlert
    /\ alertCall = NoAlertCall

\* Current conditions with this category and icon are rendered (line 218)
UpdateBackground(condition, icon) ==
    /\ \E r \in {updateBackground(body, condition, icon)} :
          /\ body' = r.body
          /\ themeCall' = [called |-> TRUE, condition |-> condition, icon |-> icon,
                           threw |-> r.threw]
    /\ UNCHANGED <<storageVars, pageVars, today, aggVars, cityInput, validated,
                   weatherAlert, alertCall>>

ThemeNext ==
    \E condition \in KnownConditions \cup OtherConditions, icon \in IconCodes :
        UpdateBackground(condition, icon)

SpecTheme == ThemeInit /\ [][ThemeNext]_vars

\* ------------------------------------------------------------------------
\* checkWeatherAlert on its own
\* ------------------------------------------------------------------------

\* data.main.temp, in tenths of a degree: around both thresholds, around the
\* halves that Math.round decides, mild values, and NaN
Temperatures ==
    { JsNumber(n) : n \in {-250, -205, -204, -201, -200, -199, 0, 200,
                           399, 400, 401, 404, 405, 450} }
    \cup {NaN}

AlertInit ==
    /\ localStorage = NoItem
    /\ lastCall = NoCall
    /\ lookup = [l \in Lookups |-> InitialLookup]
    /\ ui = InitialUi
    /\ today \in TodayKeys
    /\ forecastList = <<>>
    /\ forecastCards = Aggregate(forecastList, today)
    /\ cityInput = <<>>
    /\ validated = NotValidated
    /\ body = InitialBody
    /\ themeCall = NoThemeCall
    /\ weatherAlert = InitialAlert
    /\ alertCall = NoAlertCall

\* Current conditions with this temperature are rendered (line 221)
CheckAlert(tempCelsius) ==
    /\ weatherAlert' = checkWeatherAlert(weatherAlert, tempCelsius)
    /\ alertCall' = [called |-> TRUE, temp |-> tempCelsius, closed |-> FALSE]
    /\ UNCHANGED <<storageVars, pageVars, today, aggVars, cityInput, validated,
                   body, themeCall>>

\* The X button of the banner is clicked
CloseAlert ==
    /\ weatherAlert' = alertCloseClick(weatherAlert)
    /\ alertCall' = [alertCall EXCEPT !.closed = TRUE]
    /\ UNCHANGED <<storageVars, pageVars, today, aggVars, cityInput, validated,
                   body, themeCall>>

AlertNext ==
    \/ \E tempCelsius \in Temperatures : CheckAlert(tempCelsius)
    \/ CloseAlert

SpecAlert == AlertInit /\ [][AlertNext]_vars

\* ------------------------------------------------------------------------
\* Overlapping lookups: a lookup is started while another is in flight
\* ------------------------------------------------------------------------

MaxOverlap == 2
Overlapping == 1..MaxOverlap

\* The page as loaded, with room for the records of every lookup
OverlapUi ==
    [InitialUi EXCEPT !.toasts = [i \in 0..MaxOverlap |-> <<>>],
                      !.shows = [l \in Overlapping |-> 0],
                      !.hides = [l \in Overlapping |-> 0],
                      !.renderedCurrent = [l \in Overlapping |-> FALSE],
                      !.renderedForecast = [l \in Overlapping |-> FALSE]]

OverlapInit ==
    /\ localStorage \in PageStartItems
    /\ lastCall = NoCall
    /\ lookup = [l \in Overlapping |-> InitialLookup]
    /\ ui \in { refreshRecentCitiesDropdown(OverlapUi, localStorage, env).ui :
                   env \in ReadEnvs }
    /\ today \in TodayKeys
    /\ forecastList = <<>>
    /\ forecastCards = Aggregate(<<>>, today)
    /\ WidgetsInit

\* Nothing disables the buttons while a lookup waits (lines 723-747)
InFlight(l) == lookup[l].phase \in {"Locating", "Loading"}

\* The first lookup, or one started while an earlier one is in flight
Overlaps(l) == l = 1 \/ \E k \in 1..(l - 1) : InFlight(k)

OverlapNext ==
    \/ \E l \in Overlapping : \E input \in CityInputs \cup RecentItems :
          Overlaps(l) /\ SearchByCity(l, input)
    \/ \E l \in Overlapping, supported \in BOOLEAN :
          Overlaps(l) /\ SearchByLocation(l, supported)
    \/ \E l \in Overlapping : GeoSuccess(l)
    \/ \E l \in Overlapping, code \in GeoErrorCodes : GeoError(l, code)
    \/ \E l \in Overlapping, r \in CurrentResponses, env \in WriteEnvs :
          SettleCurrent(l, r, env)
    \/ \E l \in Overlapping, r \in ForecastResponses, env \in WriteEnvs :
          SettleForecast(l, r, env)

SpecOverlap == OverlapInit /\ [][OverlapNext]_vars

\* ------------------------------------------------------------------------
\* Properties
\* ------------------------------------------------------------------------

\* The messages of the error toasts lookup l has shown
ErrorsOf(l) ==
    LET errors == SelectSeq(ui.toasts[l], LAMBDA t : t.type = "error")
    IN  [i \in DOMAIN errors |-> errors[i].message]

Finished(l) == lookup[l].phase \in {"Success", "Failed"}

\* The stored list as a reader finds it
RecentCityList == IF localStorage.kind = "array" THEN localStorage.value ELSE <<>>

\* C1: nothing of a lookup is rendered unless both of its retrievals have
\* succeeded, and a lookup whose current-conditions retrieval failed while its
\* forecast retrieval succeeded has failed with the current-conditions error
\* as its only error and has rendered no forecast.
C1_JoinNotRace ==
    \A l \in Lookups :
        /\ (ui.renderedCurrent[l] \/ ui.renderedForecast[l]
              \/ ui.current.from = l \/ ui.forecast.from = l)
           => lookup[l].cur.st = "ok" /\ lookup[l].fc.st = "ok"
        /\ (lookup[l].cur.st = "err" /\ lookup[l].fc.st = "ok")
           => /\ lookup[l].phase = "Failed"
              /\ ErrorsOf(l) = <<lookup[l].cur.message>>
              /\ ~ui.renderedForecast[l]
              /\ ui.forecast.from # l

C1_Witness ==
    \E l \in Lookups :
        /\ lookup[l].cur.st = "err" /\ lookup[l].fc.st = "ok"
        /\ lookup[l].phase = "Failed"

\* C2 as stated: when both retrievals of a lookup have failed, the error the
\* lookup reported is the current-conditions error, whichever failed first.
C2_CurrentErrorReported ==
    \A l \in Lookups :
        (lookup[l].cur.st = "err" /\ lookup[l].fc.st = "err")
        => ErrorsOf(l) = <<lookup[l].cur.message>>

\* C2 as amended: when both retrievals of a lookup have failed, the lookup has
\* failed and reported exactly one error, that of the retrieval that failed
\* first.
C2_FirstFailureReported ==
    \A l \in Lookups :
        (lookup[l].cur.st = "err" /\ lookup[l].fc.st = "err")
        => /\ lookup[l].phase = "Failed"
           /\ ErrorsOf(l) = <<IF lookup[l].firstFailed = "current"
                              THEN lookup[l].cur.message
                              ELSE lookup[l].fc.message>>

C2_Witness ==
    \E l \in Lookups :
        /\ lookup[l].cur.st = "err" /\ lookup[l].fc.st = "err"
        /\ lookup[l].firstFailed = "forecast"
        /\ lookup[l].cur.message # lookup[l].fc.message

\* C3: a lookup that has passed its local checks has shown the overlay once,
\* before any of its retrievals was issued; it has hidden it exactly once as
\* soon as its outcome is decided (a retrieval failed, both succeeded, the
\* position request failed), whether it ended in Success or in Failed; and it
\* never hides it while undecided or when rejected locally.
C3_LoadingOnceInOnceOut ==
    \A l \in Lookups :
        /\ lookup[l].phase \in {"Idle", "Rejected"}
           => ui.shows[l] = 0 /\ ui.hides[l] = 0 /\ lookup[l].cur.st = "none"
                /\ lookup[l].fc.st = "none"
        /\ lookup[l].phase \in {"Locating", "Loading"}
           => ui.shows[l] = 1 /\ ui.hides[l] = 0
        /\ Finished(l) => ui.shows[l] = 1 /\ ui.hides[l] = 1
        /\ (\/ lookup[l].cur.st = "err"
            \/ lookup[l].fc.st = "err"
            \/ (lookup[l].cur.st = "ok" /\ lookup[l].fc.st = "ok"))
           => Finished(l)

\* a lookup that failed while rendering (current conditions shown, then an
\* exception) has left Loading
C3_Witness ==
    \E l \in Lookups :
        /\ lookup[l].phase = "Failed"
        /\ ui.renderedCurrent[l]
        /\ ui.hides[l] = 1

\* C4 as stated: a finished lookup has rendered both current conditions and
\* forecast and reported no error, or has rendered neither and reported
\* exactly one error.
C4_NoPartialSuccess ==
    \A l \in Lookups :
        Finished(l)
        => \/ ui.renderedCurrent[l] /\ ui.renderedForecast[l] /\ ErrorsOf(l) = <<>>
           \/ ~ui.renderedCurrent[l] /\ ~ui.renderedForecast[l] /\ Len(ErrorsOf(l)) = 1

ValidationErrors ==
    {"Please enter a city name.",
     "City name must be at least 2 characters.",
     "City name is too long.",
     "City name can only contain letters, spaces, hyphens, and apostrophes."}

\* C5: a name lookup rejected by validation has reported one validation error,
\* has issued no retrieval and has never shown the overlay, and the step that
\* rejects it changes neither the overlay, nor the weather on display, nor the
\* stored list, nor the dropdown.
C5_RejectedLocally ==
    /\ [](\A l \in Lookups :
            (lookup[l].phase = "Rejected" /\ lookup[l].kind = "city")
            => /\ Len(ErrorsOf(l)) = 1
               /\ ErrorsOf(l)[1] \in ValidationErrors
               /\ lookup[l].cur.st = "none" /\ lookup[l].fc.st = "none"
               /\ ui.shows[l] = 0
               /\ ~ui.renderedCurrent[l] /\ ~ui.renderedForecast[l])
    /\ [][\A l \in Lookups :
            (lookup[l].phase = "Idle" /\ lookup'[l].phase = "Rejected"
               /\ lookup'[l].kind = "city")
            => /\ ui'.loading = ui.loading
               /\ ui'.current = ui.current
               /\ ui'.forecast = ui.forecast
               /\ ui'.recentList = ui.recentList
               /\ localStorage' = localStorage]_vars

C5_Witness ==
    \E l \in Lookups : lookup[l].phase = "Rejected" /\ lookup[l].kind = "city"

NoTwoEqualIgnoringCase(list) ==
    \A i, j \in DOMAIN list : i # j => toLowerCase(list[i]) # toLowerCase(list[j])

\* C6: started with no list stored (nothing, or a text that holds no list),
\* after any sequence of addRecentCity and clearRecentCities calls the stored
\* list has at most 5 entries and no two of them are equal ignoring case.
C6_AtMostFiveDistinct ==
    /\ Len(RecentCityList) <= 5
    /\ NoTwoEqualIgnoringCase(RecentCityList)

\* a full list, just written
C6_Witness ==
    /\ Len(RecentCityList) = 5
    /\ lastCall.op = "addRecentCity" /\ lastCall.wrote

\* The entries of old other than those equal to name ignoring case, in order
Others(old, name) == SelectSeq(old, LAMBDA c : toLowerCase(c) # toLowerCase(name))

\* <<name>> followed by the first entries of rest, 5 entries at most
FrontedAndCut(name, rest) ==
    <<name>> \o SubSeq(rest, 1, IF Len(rest) > 4 THEN 4 ELSE Len(rest))

BecomesSuccess(l) == lookup[l].phase # "Success" /\ lookup'[l].phase = "Success"

\* C8 as stated: the stored list changes only in the step in which a lookup
\* succeeds or in the clear handler; a step in which a lookup fails or is
\* rejected leaves it unchanged; and the step in which a lookup succeeds
\* leaves the resolved place name at the front of the list.
C8_Original ==
    [][/\ localStorage' # localStorage
          => \/ \E l \in Lookups : BecomesSuccess(l)
             \/ ui'.toasts[0] # ui.toasts[0]
       /\ \A l \in Lookups :
            /\ (lookup[l].phase # lookup'[l].phase
                  /\ lookup'[l].phase \in {"Failed", "Rejected"})
               => localStorage' = localStorage
            /\ BecomesSuccess(l)
               => /\ RecentCityList' # <<>>
                  /\ Head(RecentCityList') = ui'.current.name]_vars

\* C8 as amended: the stored list changes only in the step in which a lookup
\* succeeds or in the clear handler; a step in which a lookup fails or is
\* rejected leaves it unchanged; the step in which a lookup succeeds leaves
\* the trimmed resolved place name at the front of the list when the name is
\* not blank and the storage accepts the write, and leaves the stored list
\* unchanged otherwise.
C8_ListFrame ==
    [][/\ localStorage' # localStorage
          => \/ \E l \in Lookups : BecomesSuccess(l)
             \/ ui'.toasts[0] # ui.toasts[0]
       /\ \A l \in Lookups :
            /\ (lookup[l].phase # lookup'[l].phase
                  /\ lookup'[l].phase \in {"Failed", "Rejected"})
               => localStorage' = localStorage
            /\ BecomesSuccess(l)
               => IF lookup'[l].wrote
                  THEN /\ trim(ui'.current.name) # <<>>
                       /\ RecentCityList' # <<>>
                       /\ Head(RecentCityList') = trim(ui'.current.name)
                  ELSE localStorage' = localStorage]_vars

\* a successful lookup resolved to "Paris" has put it in front of "London"
C8_Witness ==
    \E l \in Lookups :
        /\ lookup[l].phase = "Success" /\ lookup[l].wrote
        /\ ui.current = [from |-> l, name |-> Paris]
        /\ RecentCityList = <<Paris, London>>

\* C9 as stated: no call of getRecentCities, addRecentCity or
\* clearRecentCities lets an exception out, whatever the storage does or
\* holds, and getRecentCities always returns a list.
C9_NothingEscapes ==
    /\ ~lastCall.threw
    /\ lastCall.op = "getRecentCities" => lastCall.returned.type = "array"

\* The date part of a sample's timestamp, "01-0d"
DateOf(sample) == SubSeq(sample.dt_txt.chars, 1, 5)

\* The position at which a date first appears in the list rendered (0: never)
FirstAt(date) ==
    IF \E i \in DOMAIN forecastList : DateOf(forecastList[i]) = date
    THEN CHOOSE i \in DOMAIN forecastList :
            /\ DateOf(forecastList[i]) = date
            /\ \A j \in 1..(i - 1) : DateOf(forecastList[j]) # date
    ELSE 0

FutureDates == { DateOf(forecastList[i]) : i \in DOMAIN forecastList } \ {today}

\* C10: for a list of samples that all carry a timestamp, renderForecast
\* completes and emits at most 5 daily forecasts, none dated today, no two of
\* the same date, each for a date of the input, in the order in which the
\* dates first appear in the input and starting with the earliest-appearing
\* ones; it emits 5 when the input has at least 5 distinct dates other than
\* today and one per such date otherwise.
C10_AtMostFiveFutureDays ==
    LET cards == forecastCards.dailyForecasts
        CardDate(i) == DateOf(cards[i].midday)
    IN  /\ ~forecastCards.threw
        /\ Len(cards) <= 5
        /\ \A i \in DOMAIN cards : CardDate(i) \in FutureDates
        /\ \A i, j \in DOMAIN cards : i < j => FirstAt(CardDate(i)) < FirstAt(CardDate(j))
        /\ \A d \in FutureDates :
              (\A i \in DOMAIN cards : CardDate(i) # d)
              => \A i \in DOMAIN cards : FirstAt(CardDate(i)) < FirstAt(d)
        /\ Len(cards) = IF Cardinality(FutureDates) >= 5 THEN 5
                        ELSE Cardinality(FutureDates)

\* six distinct future dates were given and five cards were made
C10_Witness ==
    /\ Cardinality(FutureDates) = 6
    /\ Len(forecastCards.dailyForecasts) = 5

\* The samples of the list rendered are all of the provider's form
WellFormedList == \A i \in DOMAIN forecastList : forecastList[i] \in DaySamples

\* The day group of a date: its samples in input order
GroupOf(date) == SelectSeq(forecastList, LAMBDA e : DateOf(e) = date)

\* The hour of day of a well-formed sample, read off "01-0d hh:00"
HourOf(e) == 10 * DigitValue[e.dt_txt.chars[7]] + DigitValue[e.dt_txt.chars[8]]

DistanceToNoon(e) == IF HourOf(e) < 12 THEN 12 - HourOf(e) ELSE HourOf(e) - 12

\* C11: for a list of well-formed samples, the representative of every daily
\* forecast is the sample of its day group whose hour is closest to 12, the
\* first in input order among equally close ones.
C11_ClosestToNoonFirstWins ==
    WellFormedList
    => \A i \in DOMAIN forecastCards.dailyForecasts :
          LET midday == forecastCards.dailyForecasts[i].midday
              group == GroupOf(DateOf(midday))
          IN  \E k \in DOMAIN group :
                 /\ group[k] = midday
                 /\ \A j \in DOMAIN group :
                       /\ DistanceToNoon(group[j]) >= DistanceToNoon(midday)
                       /\ (j < k => DistanceToNoon(group[j]) > DistanceToNoon(midday))

\* hours [09, 15]: the 09:00 sample represents the day
C11_Witness ==
    /\ WellFormedList
    /\ Len(forecastList) = 2
    /\ HourOf(forecastList[1]) = 9 /\ HourOf(forecastList[2]) = 15
    /\ Len(forecastCards.dailyForecasts) = 1
    /\ forecastCards.dailyForecasts[1].midday = forecastList[1]

\* C12: for a list of well-formed samples, the minimum of every daily
\* forecast is the least temp_min of its day group and its maximum the
\* greatest temp_max of the group, whichever sample is the representative.
C12_MinMaxOverGroup ==
    WellFormedList
    => \A i \in DOMAIN forecastCards.dailyForecasts :
          LET card == forecastCards.dailyForecasts[i]
              group == GroupOf(DateOf(card.midday))
          IN  /\ \E k \in DOMAIN group : group[k].temp_min = card.tempMin
              /\ \A k \in DOMAIN group : group[k].temp_min >= card.tempMin
              /\ \E k \in DOMAIN group : group[k].temp_max = card.tempMax
              /\ \A k \in DOMAIN group : group[k].temp_max <= card.tempMax

\* temp_min [10, 8, 12] and temp_max [20, 22, 19] give 8 and 22, and the
\* representative is not the sample that has them
C12_Witness ==
    /\ WellFormedList
    /\ Len(forecastList) = 3
    /\ \A i \in 1..3 : DateOf(forecastList[i]) = DateKey(2)
    /\ <<forecastList[1].temp_min, forecastList[2].temp_min,
          forecastList[3].temp_min>> = <<10, 8, 12>>
    /\ Len(forecastCards.dailyForecasts) = 1
    /\ forecastCards.dailyForecasts[1].tempMin = 8
    /\ forecastCards.dailyForecasts[1].tempMax = 22
    /\ forecastCards.dailyForecasts[1].midday.temp_min # 8

\* C13 as stated: the daily forecasts made of a list are those made of the
\* list without its samples whose timestamp is missing or malformed, and no
\* error is raised.
C13_MalformedExcluded ==
    /\ ~forecastCards.threw
    /\ forecastCards = Aggregate(SelectSeq(forecastList, LAMBDA e : e \in DaySamples),
                                 today)

EmptyError == "Please enter a city name."
TooShortError == "City name must be at least 2 characters."
TooLongError == "City name is too long."
InvalidCharactersError ==
    "City name can only contain letters, spaces, hyphens, and apostrophes."

\* C14 as stated: a raw input of length 0 is rejected with the empty-input
\* error, one of length 1 with the too-short error, one of length 101 or
\* more with the too-long error.
C14_RawLengths ==
    validated # NotValidated
    => /\ Len(cityInput) = 0 => ~validated.valid /\ validated.error = EmptyError
       /\ Len(cityInput) = 1 => ~validated.valid /\ validated.error = TooShortError
       /\ Len(cityInput) >= 101 => ~validated.valid /\ validated.error = TooLongError

\* C14 as amended: an input whose length after trimming is 0 is rejected
\* with the empty-input error, one whose trimmed length is 1 with the
\* too-short error, one whose trimmed length is 101 or more with the too-long
\* error, whatever its characters are.
C14_TrimmedLengths ==
    validated # NotValidated
    => LET n == Len(trim(cityInput))
       IN  /\ n = 0 => ~validated.valid /\ validated.error = EmptyError
           /\ n = 1 => ~validated.valid /\ validated.error = TooShortError
           /\ n >= 101 => ~validated.valid /\ validated.error = TooLongError

\* 101 characters that are not letters, between spaces: too long, not
\* invalid characters
C14_Witness ==
    /\ Len(cityInput) > Len(trim(cityInput))
    /\ Len(trim(cityInput)) = 101
    /\ trim(cityInput)[1] = "4"
    /\ validated.error = TooLongError

\* Letters: the ASCII ones and the accented Latin ones
Letters == AsciiLetters \cup (Latin1Range \ {"×", "÷"}) \cup {"U+0141", "U+017A"}

\* C15 as stated: an input whose trimmed length is between 2 and 100 is
\* accepted exactly when each of its characters is a letter (accented Latin
\* letters included), a space, a hyphen, an apostrophe, a period or a comma;
\* it is rejected with the invalid-characters error otherwise, and the value
\* returned on acceptance is the trimmed input.
C15_AllowList ==
    LET trimmed == trim(cityInput)
    IN  (validated # NotValidated /\ Len(trimmed) >= 2 /\ Len(trimmed) <= 100)
        => /\ validated.valid
              <=> \A i \in DOMAIN trimmed :
                     trimmed[i] \in Letters \cup Whitespace \cup {"-", "'", ".", ","}
           /\ ~validated.valid => validated.error = InvalidCharactersError
           /\ validated.valid => validated.value = trimmed

\* The theme classes on the body
ThemeClasses == { body.className[i] : i \in DOMAIN body.className } \cap WeatherClasses

\* The particles on the page, overlay by overlay
Particles == [i \in DOMAIN body.overlays |-> body.overlays[i].particles]

\* C16 as stated: no call of updateBackground raises an error, and a
\* condition that is not in the table leaves the default theme, and no
\* other, on the body.
C16_TotalWithDefault ==
    themeCall.called
    => /\ ~themeCall.threw
       /\ themeCall.condition \notin KnownConditions
          => ThemeClasses = {"weather-default"}

\* The fixed table: a theme per category
ThemeTable ==
    (Clear :> "weather-clear") @@ (<<"C", "l", "o", "u", "d", "s">> :> "weather-clouds") @@
    (Rain :> "weather-rain") @@ (Drizzle :> "weather-drizzle") @@
    (Thunderstorm :> "weather-thunderstorm") @@ (Snow :> "weather-snow") @@
    (<<"M", "i", "s", "t">> :> "weather-mist") @@ (<<"F", "o", "g">> :> "weather-fog") @@
    (<<"H", "a", "z", "e">> :> "weather-haze") @@ (<<"S", "m", "o", "k", "e">> :> "weather-smoke")

NightIcons == { JsString(i) : i \in {<<"0", "1", "n">>, <<"1", "0", "n">>, <<"1", "3", "n">>} }

\* C17: after updateBackground(condition, icon), a category of the table has
\* its table entry as the only theme, the night variant for Clear with a
\* night icon and for nothing else; the particles are rain for Rain, Drizzle
\* and Thunderstorm, snow for Snow, and none for every other condition.
C17_FixedTables ==
    themeCall.called
    => /\ themeCall.condition \in DOMAIN ThemeTable
          => ThemeClasses =
                {IF themeCall.condition = Clear /\ themeCall.icon \in NightIcons
                 THEN "weather-clear-night"
                 ELSE ThemeTable[themeCall.condition]}
       /\ Particles = IF themeCall.condition \in {Rain, Drizzle, Thunderstorm}
                      THEN <<"raindrop">>
                      ELSE IF themeCall.condition = Snow THEN <<"snowflake">>
                      ELSE <<>>

\* a thunderstorm at night: the day theme of the category, and rain
C17_Witness ==
    /\ themeCall.called
    /\ themeCall.condition = Thunderstorm
    /\ themeCall.icon \in NightIcons
    /\ ThemeClasses = {"weather-thunderstorm"}
    /\ Particles = <<"raindrop">>

\* What the banner presents: nothing when hidden, else the kind of warning
\* and its colour
Presented(a) ==
    IF a.hidden
    THEN [shown |-> FALSE, warning |-> "", background |-> ""]
    ELSE [shown |-> TRUE, warning |-> a.message.warning, background |-> a.background]

\* C18: after checkWeatherAlert(t), and until the banner is closed by hand,
\* the heat warning is shown exactly when t > 40, the cold warning exactly
\* when t < -20, and the banner is hidden otherwise: at 40, at -20 and for
\* NaN nothing is shown.
C18_StrictThresholds ==
    (alertCall.called /\ ~alertCall.closed)
    => LET t == alertCall.temp
           shown == Presented(weatherAlert)
       IN  /\ (shown.shown /\ shown.warning = "Extreme Heat Warning!")
              <=> (~t.nan /\ t.value > 400)
           /\ (shown.shown /\ shown.warning = "Extreme Cold Warning!")
              <=> (~t.nan /\ t.value < -200)
           /\ ~shown.shown
              <=> (t.nan \/ (t.value <= 400 /\ t.value >= -200))

\* exactly -20 degrees after a cold warning: the banner is hidden again
C18_Witness ==
    /\ alertCall.called
    /\ ~alertCall.closed
    /\ alertCall.temp = JsNumber(-200)
    /\ weatherAlert.hidden
    /\ weatherAlert.message.warning = "Extreme Cold Warning!"

\* C19 as stated: after any sequence of renderings, what the banner
\* presents (hidden, heat or cold, with its colour) is what a first
\* rendering of the latest temperature alone presents.
C19_LatestTemperatureOnly ==
    (alertCall.called /\ ~alertCall.closed)
    => Presented(weatherAlert)
       = Presented(checkWeatherAlert(InitialAlert, alertCall.temp))

\* Every lookup has been started and none waits for anything any more
AllSettled ==
    \A l \in Overlapping :
        /\ lookup[l].phase \in {"Success", "Failed"}
        /\ lookup[l].cur.st # "pending"
        /\ lookup[l].fc.st # "pending"

\* A lookup has been started while an earlier one was in flight
Overlapped == \E l \in 2..MaxOverlap : lookup[l].phase # "Idle"

\* Both retrievals of lookup l have succeeded: its combined promise fulfils
Fulfils(l) ==
    /\ lookup[l].phase = "Loading"
    /\ lookup'[l].phase # "Loading"
    /\ lookup'[l].cur.st = "ok"
    /\ lookup'[l].fc.st = "ok"

\* C20 as stated: with lookups started while another was in flight, once
\* every lookup has settled the overlay is hidden and the current conditions
\* and the forecast on display come from one and the same lookup; the
\* display changes to a lookup in the step in which both its retrievals
\* have succeeded, and in no other step, so that the lookup on display is
\* the successful lookup whose retrievals settled last.
C20_LastResultWins ==
    /\ [](AllSettled => ~ui.loading /\ ui.current.from = ui.forecast.from)
    /\ [][Overlapped
          => \A l \in Overlapping :
                Fulfils(l) => ui'.current.from = l /\ ui'.forecast.from = l]_vars
    /\ [][(Overlapped /\ \A l \in Overlapping : ~Fulfils(l))
          => ui'.current = ui.current /\ ui'.forecast = ui.forecast]_vars

====
